---- MODULE Spec2Model ----
(***************************************************************************)
(* Model of the CF application core (fsw/src/cf_app.c): the validator of   *)
(* the configuration table, the cold load and the warm check of the table, *)
(* CF_Init, the message dispatch and the run loop of CF_AppMain; and of    *)
(* the timer declared in fsw/src/cf_timer.h.                               *)
(*                                                                         *)
(* Each handler is one action.  The calls a handler makes to the cFE and   *)
(* to the CFDP engine are recorded, in order, in the variable calls (the   *)
(* calls of the last step only), so that the order and the number of the   *)
(* calls of one handler can be stated.                                     *)
(***************************************************************************)
EXTENDS Integers, Sequences, FiniteSets, TLC

(***************************************************************************)
(* Status codes.  CFE_STATUS_ERR stands for every negative cFE status.     *)
(***************************************************************************)
CFE_SUCCESS == 0
CFE_TBL_INFO_UPDATED == 1275068419
CFE_SB_TIME_OUT == -905969656
CFE_STATUS_ERR == -1040187391

\* static const int32 of CF_ValidateConfigTable
no_ticks_per_second == -1
crc_alignment == -2
outgoing_chunk_size == -3

\* sizeof(pdu_fd_data_t): the capacity of the file data array of a PDU
C == 512

(***************************************************************************)
(* Bounds of the model.                                                    *)
(***************************************************************************)
\* loop iterations of CF_AppMain that receive
MaxIter == 3
\* validator inputs: ticks_per_second in 0..MaxTps
MaxTps == 2
\* validator inputs: rx_crc_calc_bytes_per_wakeup up to MaxK * 1024 + 1023
MaxK == 2

(***************************************************************************)
(* Bitwise and of two naturals, bit by bit, as the & of C.                 *)
(***************************************************************************)
RECURSIVE BitAnd(_, _)
BitAnd(a, b) ==
    IF a = 0 \/ b = 0 THEN 0
    ELSE (IF a % 2 = 1 /\ b % 2 = 1 THEN 1 ELSE 0) + 2 * BitAnd(a \div 2, b \div 2)

\* 0x3ff
Mask3ff == 1023

\* a call: <<function, argument, status returned>>
Call(f, rc) == <<f, "", rc>>
CallArg(f, arg, rc) == <<f, arg, rc>>
Event(eid) == <<"CFE_EVS_SendEvent", eid, CFE_SUCCESS>>

\* the calls of sequence cs to function f
CallsTo(cs, f) == SelectSeq(cs, LAMBDA c : c[1] = f)
NCalls(cs, f) == Len(CallsTo(cs, f))

(***************************************************************************)
(* CF_ValidateConfigTable: the status returned and the events sent.        *)
(***************************************************************************)
ValidateOffByOne(tbl) ==
    IF tbl.ticks_per_second = 0
    THEN [ret |-> no_ticks_per_second, calls |-> <<Event("CF_EID_ERR_INIT_TPS")>>]
    ELSE IF tbl.rx_crc_calc_bytes_per_wakeup = 0
            \/ BitAnd(tbl.rx_crc_calc_bytes_per_wakeup, Mask3ff) # 0
    THEN [ret |-> crc_alignment, calls |-> <<Event("CF_EID_ERR_INIT_CRC_ALIGN")>>]
    ELSE IF tbl.outgoing_file_chunk_size >= C
    THEN [ret |-> outgoing_chunk_size, calls |-> <<Event("CF_EID_ERR_INIT_OUTGOING_SIZE")>>]
    ELSE [ret |-> CFE_SUCCESS, calls |-> <<>>]

\* the validator that tests the crc bytes before the ticks per second
ValidateCrcFirst(tbl) ==
    IF tbl.rx_crc_calc_bytes_per_wakeup = 0
       \/ BitAnd(tbl.rx_crc_calc_bytes_per_wakeup, Mask3ff) # 0
    THEN [ret |-> crc_alignment, calls |-> <<Event("CF_EID_ERR_INIT_CRC_ALIGN")>>]
    ELSE IF tbl.ticks_per_second = 0
    THEN [ret |-> no_ticks_per_second, calls |-> <<Event("CF_EID_ERR_INIT_TPS")>>]
    ELSE IF tbl.outgoing_file_chunk_size > C
    THEN [ret |-> outgoing_chunk_size, calls |-> <<Event("CF_EID_ERR_INIT_OUTGOING_SIZE")>>]
    ELSE [ret |-> CFE_SUCCESS, calls |-> <<>>]

CF_ValidateConfigTable(tbl) ==
    IF tbl.ticks_per_second = 0
    THEN [ret |-> no_ticks_per_second, calls |-> <<Event("CF_EID_ERR_INIT_TPS")>>]
    ELSE IF tbl.rx_crc_calc_bytes_per_wakeup = 0
            \/ BitAnd(tbl.rx_crc_calc_bytes_per_wakeup, Mask3ff) # 0
    THEN [ret |-> crc_alignment, calls |-> <<Event("CF_EID_ERR_INIT_CRC_ALIGN")>>]
    ELSE IF tbl.outgoing_file_chunk_size > C
    THEN [ret |-> outgoing_chunk_size, calls |-> <<Event("CF_EID_ERR_INIT_OUTGOING_SIZE")>>]
    ELSE [ret |-> CFE_SUCCESS, calls |-> <<>>]

(***************************************************************************)
(* Configuration records.                                                  *)
(***************************************************************************)
Rec(tps, rx, out) ==
    [ticks_per_second |-> tps, rx_crc_calc_bytes_per_wakeup |-> rx,
     outgoing_file_chunk_size |-> out]

\* no record: a table not loaded, a null pointer
NoRec == [none |-> TRUE]

\* the records of the table file and of the table loads of the ground
FileA == Rec(100, 1024, C)
FileNoTicks == Rec(0, 1024, C)
LoadB == Rec(10, 2048, 256)
LoadBadCrc == Rec(10, 1000, 256)
FileRecs == {FileA, FileNoTicks}
LoadRecs == {LoadB, LoadBadCrc}

(***************************************************************************)
(* The table services of the cFE, as the application sees them.  A status  *)
(* asked of the environment (rc) is returned as it is; an update is        *)
(* applied by Manage alone and only while the address is released, and     *)
(* GetAddress reports CFE_TBL_INFO_UPDATED after an update.                *)
(***************************************************************************)
TblNone == [active |-> NoRec, pending |-> NoRec, updated |-> FALSE, held |-> FALSE]

CFE_TBL_Load(t, rc, file) ==
    IF rc # CFE_SUCCESS THEN [rc |-> rc, calls |-> <<>>, t |-> t]
    ELSE LET v == CF_ValidateConfigTable(file) IN
         IF v.ret # CFE_SUCCESS
         THEN [rc |-> CFE_STATUS_ERR, calls |-> v.calls, t |-> t]
         ELSE [rc |-> CFE_SUCCESS, calls |-> <<>>,
               t |-> [t EXCEPT !.active = file, !.updated = TRUE]]

CFE_TBL_ReleaseAddress(t, rc) ==
    [rc |-> rc, t |-> IF rc < 0 THEN t ELSE [t EXCEPT !.held = FALSE]]

CFE_TBL_Manage(t, rc) ==
    [rc |-> rc,
     t |-> IF rc < 0 \/ t.pending = NoRec \/ t.held THEN t
           ELSE [t EXCEPT !.active = t.pending, !.pending = NoRec, !.updated = TRUE]]

CFE_TBL_GetAddress(t, rc) ==
    IF rc < 0 THEN [rc |-> rc, ptr |-> NoRec, t |-> t]
    ELSE [rc |-> IF t.updated THEN CFE_TBL_INFO_UPDATED ELSE CFE_SUCCESS,
          ptr |-> t.active,
          t |-> [t EXCEPT !.held = TRUE, !.updated = FALSE]]

\* the statuses the environment may return
OkOrErr == {CFE_SUCCESS, CFE_STATUS_ERR}
TblCodes == {CFE_SUCCESS, CFE_TBL_INFO_UPDATED, CFE_STATUS_ERR}

(***************************************************************************)
(* Run status values of CFE_ES_RunStatus.                                  *)
(***************************************************************************)
APP_UNDEFINED == "CFE_ES_RunStatus_UNDEFINED"
APP_RUN == "CFE_ES_RunStatus_APP_RUN"
APP_EXIT == "CFE_ES_RunStatus_APP_EXIT"
APP_ERROR == "CFE_ES_RunStatus_APP_ERROR"

(***************************************************************************)
(* CF_CheckTables.  s is the part of CF_AppData and of the table services  *)
(* the check works on: [run_status, config_table, t, calls]; env gives the *)
(* status each table call returns.                                         *)
(***************************************************************************)
StepReleaseSilent(s, rc) ==
    LET r == CFE_TBL_ReleaseAddress(s.t, rc) IN
    [s EXCEPT !.t = r.t,
              !.calls = @ \o <<Call("CFE_TBL_ReleaseAddress", r.rc)>>]

StepRelease(s, rc) ==
    LET r == CFE_TBL_ReleaseAddress(s.t, rc) IN
    IF r.rc # CFE_SUCCESS
    THEN [s EXCEPT !.t = r.t,
                   !.calls = @ \o <<Call("CFE_TBL_ReleaseAddress", r.rc),
                                    Event("CF_EID_ERR_INIT_TBL_CHECK_REL")>>,
                   !.run_status = APP_ERROR]
    ELSE [s EXCEPT !.t = r.t,
                   !.calls = @ \o <<Call("CFE_TBL_ReleaseAddress", r.rc)>>]

StepManage(s, rc) ==
    LET r == CFE_TBL_Manage(s.t, rc) IN
    IF r.rc # CFE_SUCCESS
    THEN [s EXCEPT !.t = r.t,
                   !.calls = @ \o <<Call("CFE_TBL_Manage", r.rc),
                                    Event("CF_EID_ERR_INIT_TBL_CHECK_MAN")>>,
                   !.run_status = APP_ERROR]
    ELSE [s EXCEPT !.t = r.t,
                   !.calls = @ \o <<Call("CFE_TBL_Manage", r.rc)>>]

\* the get-address step that reports its failure and leaves the run status
StepGetAddressNotFatal(s, rc) ==
    LET r == CFE_TBL_GetAddress(s.t, rc) IN
    IF r.rc # CFE_SUCCESS /\ r.rc # CFE_TBL_INFO_UPDATED
    THEN [s EXCEPT !.t = r.t, !.config_table = r.ptr,
                   !.calls = @ \o <<Call("CFE_TBL_GetAddress", r.rc),
                                    Event("CF_EID_ERR_INIT_TBL_CHECK_GA")>>]
    ELSE [s EXCEPT !.t = r.t, !.config_table = r.ptr,
                   !.calls = @ \o <<Call("CFE_TBL_GetAddress", r.rc)>>]

StepGetAddress(s, rc) ==
    LET r == CFE_TBL_GetAddress(s.t, rc) IN
    IF r.rc # CFE_SUCCESS /\ r.rc # CFE_TBL_INFO_UPDATED
    THEN [s EXCEPT !.t = r.t, !.config_table = r.ptr,
                   !.calls = @ \o <<Call("CFE_TBL_GetAddress", r.rc),
                                    Event("CF_EID_ERR_INIT_TBL_CHECK_GA")>>,
                   !.run_status = APP_ERROR]
    ELSE [s EXCEPT !.t = r.t, !.config_table = r.ptr,
                   !.calls = @ \o <<Call("CFE_TBL_GetAddress", r.rc)>>]

\* the check with the manage call before the release call
WarmCheckManageFirst(s, env) ==
    StepGetAddress(StepRelease(StepManage(s, env.man), env.rel), env.ga)

\* the body of the if of CF_CheckTables
WarmCheck(s, env) ==
    StepGetAddress(StepManage(StepRelease(s, env.rel), env.man), env.ga)

\* the check without the test of engine.enabled
CheckTablesUngated(enabled, s, env) == WarmCheck(s, env)

CF_CheckTables(enabled, s, env) ==
    IF ~enabled THEN WarmCheck(s, env) ELSE s

\* the statuses of the three table calls of one check
CheckEnvs == [rel : TblCodes, man : TblCodes, ga : OkOrErr]

(***************************************************************************)
(* CF_TableInit: the cold load.  Returns [status, calls, t, config_table]. *)
(***************************************************************************)
\* the cold load that returns the status of the last call as it is
TableInitReturnsUpdated(t, env, file) ==
    LET c1 == <<Call("CFE_TBL_Register", env.reg)>> IN
    IF env.reg # CFE_SUCCESS
    THEN [status |-> env.reg, calls |-> c1 \o <<Event("CF_EID_ERR_INIT_TBL_REG")>>,
          t |-> t, config_table |-> NoRec]
    ELSE
    LET ld == CFE_TBL_Load(t, env.load, file)
        c2 == c1 \o ld.calls \o <<Call("CFE_TBL_Load", ld.rc)>> IN
    IF ld.rc # CFE_SUCCESS
    THEN [status |-> ld.rc, calls |-> c2 \o <<Event("CF_EID_ERR_INIT_TBL_LOAD")>>,
          t |-> ld.t, config_table |-> NoRec]
    ELSE
    LET mn == CFE_TBL_Manage(ld.t, env.man)
        c3 == c2 \o <<Call("CFE_TBL_Manage", mn.rc)>> IN
    IF mn.rc # CFE_SUCCESS
    THEN [status |-> mn.rc, calls |-> c3 \o <<Event("CF_EID_ERR_INIT_TBL_MANAGE")>>,
          t |-> mn.t, config_table |-> NoRec]
    ELSE
    LET ga == CFE_TBL_GetAddress(mn.t, env.ga)
        c4 == c3 \o <<Call("CFE_TBL_GetAddress", ga.rc)>> IN
    IF ga.rc # CFE_TBL_INFO_UPDATED /\ ga.rc # CFE_SUCCESS
    THEN [status |-> ga.rc, calls |-> c4 \o <<Event("CF_EID_ERR_INIT_TBL_GETADDR")>>,
          t |-> ga.t, config_table |-> ga.ptr]
    ELSE [status |-> ga.rc, calls |-> c4, t |-> ga.t, config_table |-> ga.ptr]

CF_TableInit(t, env, file) ==
    LET c1 == <<Call("CFE_TBL_Register", env.reg)>> IN
    IF env.reg # CFE_SUCCESS
    THEN [status |-> env.reg, calls |-> c1 \o <<Event("CF_EID_ERR_INIT_TBL_REG")>>,
          t |-> t, config_table |-> NoRec]
    ELSE
    LET ld == CFE_TBL_Load(t, env.load, file)
        c2 == c1 \o ld.calls \o <<Call("CFE_TBL_Load", ld.rc)>> IN
    IF ld.rc # CFE_SUCCESS
    THEN [status |-> ld.rc, calls |-> c2 \o <<Event("CF_EID_ERR_INIT_TBL_LOAD")>>,
          t |-> ld.t, config_table |-> NoRec]
    ELSE
    LET mn == CFE_TBL_Manage(ld.t, env.man)
        c3 == c2 \o <<Call("CFE_TBL_Manage", mn.rc)>> IN
    IF mn.rc # CFE_SUCCESS
    THEN [status |-> mn.rc, calls |-> c3 \o <<Event("CF_EID_ERR_INIT_TBL_MANAGE")>>,
          t |-> mn.t, config_table |-> NoRec]
    ELSE
    LET ga == CFE_TBL_GetAddress(mn.t, env.ga)
        c4 == c3 \o <<Call("CFE_TBL_GetAddress", ga.rc)>> IN
    IF ga.rc # CFE_TBL_INFO_UPDATED /\ ga.rc # CFE_SUCCESS
    THEN [status |-> ga.rc, calls |-> c4 \o <<Event("CF_EID_ERR_INIT_TBL_GETADDR")>>,
          t |-> ga.t, config_table |-> ga.ptr]
    ELSE [status |-> CFE_SUCCESS, calls |-> c4, t |-> ga.t, config_table |-> ga.ptr]

(***************************************************************************)
(* CF_CFDP_InitEngine, CF_CFDP_CycleEngine and CF_ProcessGroundCommand are *)
(* entry points of the engine and of the command processor.  A successful  *)
(* engine init enables the engine; a ground command may enable or disable  *)
(* the engine and counts itself in the command or in the error counter.    *)
(***************************************************************************)
CF_CFDP_InitEngine(enabled, rc) ==
    [status |-> rc, enabled |-> IF rc = CFE_SUCCESS THEN TRUE ELSE enabled]

GroundCmds == {"noop", "invalid", "enable_engine", "disable_engine"}

CF_ProcessGroundCommand(d, cc) ==
    LET ok == [d EXCEPT !.cmd = @ + 1]
        bad == [d EXCEPT !.err = @ + 1] IN
    CASE cc = "noop" -> ok
      [] cc = "invalid" -> bad
      [] cc = "enable_engine" ->
            IF d.engine_enabled THEN bad ELSE [ok EXCEPT !.engine_enabled = TRUE]
      [] cc = "disable_engine" ->
            IF d.engine_enabled THEN [ok EXCEPT !.engine_enabled = FALSE] ELSE bad

(***************************************************************************)
(* CF_Init.  s: [status, out, calls, t, config_table, engine_enabled], out *)
(* telling that the function has jumped to err_out.  env gives the status  *)
(* of every call to the cFE and to the engine.                             *)
(***************************************************************************)
InitState == [status |-> CFE_SUCCESS, out |-> FALSE, calls |-> <<>>, t |-> TblNone,
              config_table |-> NoRec, engine_enabled |-> FALSE]

\* a call whose failure is written to the system log and jumps to err_out
InitCall(s, f, arg, rc) ==
    IF s.out THEN s
    ELSE IF rc # CFE_SUCCESS
    THEN [s EXCEPT !.status = rc, !.out = TRUE,
                   !.calls = @ \o <<CallArg(f, arg, rc), CallArg("CFE_ES_WriteToSysLog", f, rc)>>]
    ELSE [s EXCEPT !.status = rc, !.calls = @ \o <<CallArg(f, arg, rc)>>]

\* a call whose failure is written to the system log and goes on
InitCallNoAbort(s, f, arg, rc) ==
    IF s.out THEN s
    ELSE IF rc # CFE_SUCCESS
    THEN [s EXCEPT !.status = rc,
                   !.calls = @ \o <<CallArg(f, arg, rc), CallArg("CFE_ES_WriteToSysLog", f, rc)>>]
    ELSE [s EXCEPT !.status = rc, !.calls = @ \o <<CallArg(f, arg, rc)>>]

InitEvsRegisterNoAbort(s, env) == InitCallNoAbort(s, "CFE_EVS_Register", "", env.evs)

InitEvsRegister(s, env) == InitCall(s, "CFE_EVS_Register", "", env.evs)

InitPipe(s, env) == InitCall(s, "CFE_SB_CreatePipe", "", env.pipe)

InitSubscribe(s, env) ==
    InitCall(InitCall(InitCall(s, "CFE_SB_Subscribe", "CF_CMD_MID", env.sub[1]),
                      "CFE_SB_Subscribe", "CF_SEND_HK_MID", env.sub[2]),
             "CFE_SB_Subscribe", "CF_WAKE_UP_MID", env.sub[3])

\* the table init whose failure does not jump to err_out
InitTableNoAbort(s, env, file) ==
    IF s.out THEN s
    ELSE LET r == CF_TableInit(s.t, env, file) IN
         [s EXCEPT !.status = r.status,
                   !.calls = @ \o r.calls,
                   !.t = r.t, !.config_table = r.config_table]

InitTable(s, env, file) ==
    IF s.out THEN s
    ELSE LET r == CF_TableInit(s.t, env, file) IN
         [s EXCEPT !.status = r.status, !.out = r.status # CFE_SUCCESS,
                   !.calls = @ \o r.calls,
                   !.t = r.t, !.config_table = r.config_table]

InitEngine(s, env) ==
    IF s.out THEN s
    ELSE LET r == CF_CFDP_InitEngine(s.engine_enabled, env.engine) IN
         [s EXCEPT !.status = r.status, !.out = r.status # CFE_SUCCESS,
                   !.calls = @ \o <<Call("CF_CFDP_InitEngine", r.status)>>,
                   !.engine_enabled = r.enabled]

InitStartupEvent(s, env) ==
    IF s.out THEN s
    ELSE IF env.initev # CFE_SUCCESS
    THEN [s EXCEPT !.status = env.initev, !.out = TRUE,
                   !.calls = @ \o <<CallArg("CFE_EVS_SendEvent", "CF_EID_INF_INIT", env.initev),
                                    CallArg("CFE_ES_WriteToSysLog", "CFE_EVS_SendEvent",
                                            env.initev)>>]
    ELSE [s EXCEPT !.status = env.initev, !.calls = @ \o <<Event("CF_EID_INF_INIT")>>]

CF_Init(env, file) ==
    InitStartupEvent(
      InitEngine(
        InitTable(
          InitSubscribe(InitPipe(InitEvsRegister(InitState, env), env), env),
          env, file),
        env),
      env)

InitEnvs == [evs : OkOrErr, pipe : OkOrErr, sub : [1..3 -> OkOrErr],
             reg : OkOrErr, load : OkOrErr, man : TblCodes, ga : OkOrErr,
             engine : OkOrErr, initev : OkOrErr]

(***************************************************************************)
(* The handlers of the messages.  d is CF_AppData with the table services  *)
(* and the calls made: [run_status, config_table, engine_enabled, cmd,     *)
(* err, t, calls, timebase], timebase counting the refreshes of the time   *)
(* reference of the timers made by the handler.                            *)
(***************************************************************************)
CF_HkCmd(d) ==
    [d EXCEPT !.calls = @ \o <<Call("CFE_MSG_SetMsgTime", CFE_SUCCESS),
                               Call("CFE_SB_TransmitMsg", CFE_SUCCESS)>>]

\* cf_timer_update_timebase: one refresh of the time reference of the timers
cf_timer_update_timebase(d) == [d EXCEPT !.timebase = @ + 1]

\* one cycle of the engine; it refreshes the time reference once
CF_CFDP_CycleEngine(d) ==
    cf_timer_update_timebase(
      [d EXCEPT !.calls = @ \o <<Call("CF_CFDP_CycleEngine", CFE_SUCCESS)>>])

\* the wakeup that cycles the engine twice
WakeUpTwice(d) ==
    LET e == [d EXCEPT !.calls = @ \o <<CallArg("CFE_ES_PerfLogEntry",
                                                "CF_PERF_ID_CYCLE_ENG", CFE_SUCCESS)>>]
        c == CF_CFDP_CycleEngine(CF_CFDP_CycleEngine(e)) IN
    [c EXCEPT !.calls = @ \o <<CallArg("CFE_ES_PerfLogExit",
                                       "CF_PERF_ID_CYCLE_ENG", CFE_SUCCESS)>>]

\* the wakeup that also checks the tables between the markers of the cycle
WakeUpWithCheck(d) ==
    LET e == [d EXCEPT !.calls = @ \o <<CallArg("CFE_ES_PerfLogEntry",
                                                "CF_PERF_ID_CYCLE_ENG", CFE_SUCCESS)>>]
        c == WarmCheck(CF_CFDP_CycleEngine(e),
                       [rel |-> CFE_SUCCESS, man |-> CFE_SUCCESS, ga |-> CFE_SUCCESS]) IN
    [c EXCEPT !.calls = @ \o <<CallArg("CFE_ES_PerfLogExit",
                                       "CF_PERF_ID_CYCLE_ENG", CFE_SUCCESS)>>]

\* the wakeup that logs the markers of the cycle and does not cycle the engine
WakeUpNoCycle(d) ==
    [d EXCEPT !.calls = @ \o <<CallArg("CFE_ES_PerfLogEntry",
                                        "CF_PERF_ID_CYCLE_ENG", CFE_SUCCESS),
                               CallArg("CFE_ES_PerfLogExit",
                                       "CF_PERF_ID_CYCLE_ENG", CFE_SUCCESS)>>]

CF_WakeUp(d) ==
    LET e == [d EXCEPT !.calls = @ \o <<CallArg("CFE_ES_PerfLogEntry",
                                                "CF_PERF_ID_CYCLE_ENG", CFE_SUCCESS)>>]
        c == CF_CFDP_CycleEngine(e) IN
    [c EXCEPT !.calls = @ \o <<CallArg("CFE_ES_PerfLogExit",
                                       "CF_PERF_ID_CYCLE_ENG", CFE_SUCCESS)>>]

GroundCommand(d, cc) ==
    [CF_ProcessGroundCommand(d, cc) EXCEPT
        !.calls = @ \o <<CallArg("CF_ProcessGroundCommand", cc, CFE_SUCCESS)>>]

MsgIds == {"CF_CMD_MID", "CF_WAKE_UP_MID", "CF_SEND_HK_MID", "OTHER_MID"}

\* the default case that also raises the run status to error
ProcessMsgDefaultFatal(d, msg_id, env) ==
    LET g == [d EXCEPT !.calls = @ \o <<CallArg("CFE_MSG_GetMsgId", msg_id, CFE_SUCCESS)>>] IN
    CASE msg_id = "CF_CMD_MID" -> GroundCommand(g, env.cc)
      [] msg_id = "CF_WAKE_UP_MID" -> CF_WakeUp(g)
      [] msg_id = "CF_SEND_HK_MID" -> CF_CheckTables(g.engine_enabled, CF_HkCmd(g), env.chk)
      [] OTHER -> [g EXCEPT !.err = @ + 1, !.run_status = APP_ERROR,
                            !.calls = @ \o <<Event("CF_EID_ERR_INIT_CMD_LENGTH")>>]

\* the wakeup case without its break: it falls into the housekeeping case
ProcessMsgFallThrough(d, msg_id, env) ==
    LET g == [d EXCEPT !.calls = @ \o <<CallArg("CFE_MSG_GetMsgId", msg_id, CFE_SUCCESS)>>] IN
    CASE msg_id = "CF_CMD_MID" -> GroundCommand(g, env.cc)
      [] msg_id = "CF_WAKE_UP_MID" ->
            LET w == CF_WakeUp(g) IN
            CF_CheckTables(w.engine_enabled, CF_HkCmd(w), env.chk)
      [] msg_id = "CF_SEND_HK_MID" -> CF_CheckTables(g.engine_enabled, CF_HkCmd(g), env.chk)
      [] OTHER -> [g EXCEPT !.err = @ + 1,
                            !.calls = @ \o <<Event("CF_EID_ERR_INIT_CMD_LENGTH")>>]

CF_ProcessMsg(d, msg_id, env) ==
    LET g == [d EXCEPT !.calls = @ \o <<CallArg("CFE_MSG_GetMsgId", msg_id, CFE_SUCCESS)>>] IN
    CASE msg_id = "CF_CMD_MID" -> GroundCommand(g, env.cc)
      [] msg_id = "CF_WAKE_UP_MID" -> CF_WakeUp(g)
      [] msg_id = "CF_SEND_HK_MID" -> CF_CheckTables(g.engine_enabled, CF_HkCmd(g), env.chk)
      [] OTHER -> [g EXCEPT !.err = @ + 1,
                            !.calls = @ \o <<Event("CF_EID_ERR_INIT_CMD_LENGTH")>>]

\* what a dispatch asks of its environment
MsgEnvs == [cc : GroundCmds, chk : CheckEnvs]

(***************************************************************************)
(* CF_AppMain: the status after CF_Init, the test of the loop and the body *)
(* of the loop.                                                            *)
(***************************************************************************)
\* the run status that stays APP_RUN when CF_Init fails
AppMainStatusIgnored(status) == APP_RUN

AppMainStatus(status) ==
    IF status # CFE_SUCCESS THEN APP_ERROR ELSE APP_RUN

\* CFE_ES_RunLoop: go on while the application runs and the host asks no exit
CFE_ES_RunLoop(rs, req) ==
    [continue |-> rs = APP_RUN /\ req = APP_RUN,
     run_status |-> IF rs = APP_RUN /\ req # APP_RUN THEN req ELSE rs]

NullMsg == "NULL"

\* what CFE_SB_ReceiveBuffer returns: a status and a buffer
Receives ==
    [status : {CFE_SUCCESS}, msg : MsgIds \cup {NullMsg}]
    \cup [status : {CFE_SB_TIME_OUT, CFE_STATUS_ERR}, msg : {NullMsg}]

\* the body that takes every status but CFE_SUCCESS for a receive error
BodyTimeoutIsError(d, rcv, env) ==
    LET r == [d EXCEPT !.calls =
                 <<CallArg("CFE_ES_PerfLogExit", "CF_PERF_ID_APPMAIN", CFE_SUCCESS),
                   Call("CFE_SB_ReceiveBuffer", rcv.status),
                   CallArg("CFE_ES_PerfLogEntry", "CF_PERF_ID_APPMAIN", CFE_SUCCESS)>>] IN
    IF rcv.status # CFE_SUCCESS \/ rcv.msg = NullMsg
    THEN [r EXCEPT !.calls = @ \o <<Event("CF_EID_ERR_INIT_MSG_RECV")>>,
                   !.run_status = APP_ERROR]
    ELSE CF_ProcessMsg(r, rcv.msg, env)

\* the body that reports a receive error and leaves the run status
BodyErrorNotFatal(d, rcv, env) ==
    LET r == [d EXCEPT !.calls =
                 <<CallArg("CFE_ES_PerfLogExit", "CF_PERF_ID_APPMAIN", CFE_SUCCESS),
                   Call("CFE_SB_ReceiveBuffer", rcv.status),
                   CallArg("CFE_ES_PerfLogEntry", "CF_PERF_ID_APPMAIN", CFE_SUCCESS)>>] IN
    IF (rcv.status # CFE_SUCCESS /\ rcv.status # CFE_SB_TIME_OUT)
       \/ (rcv.status = CFE_SUCCESS /\ rcv.msg = NullMsg)
    THEN [r EXCEPT !.calls = @ \o <<Event("CF_EID_ERR_INIT_MSG_RECV")>>]
    ELSE IF rcv.msg # NullMsg
    THEN CF_ProcessMsg(r, rcv.msg, env)
    ELSE r

AppMainBody(d, rcv, env) ==
    LET r == [d EXCEPT !.calls =
                 <<CallArg("CFE_ES_PerfLogExit", "CF_PERF_ID_APPMAIN", CFE_SUCCESS),
                   Call("CFE_SB_ReceiveBuffer", rcv.status),
                   CallArg("CFE_ES_PerfLogEntry", "CF_PERF_ID_APPMAIN", CFE_SUCCESS)>>] IN
    IF (rcv.status # CFE_SUCCESS /\ rcv.status # CFE_SB_TIME_OUT)
       \/ (rcv.status = CFE_SUCCESS /\ rcv.msg = NullMsg)
    THEN [r EXCEPT !.calls = @ \o <<Event("CF_EID_ERR_INIT_MSG_RECV")>>,
                   !.run_status = APP_ERROR]
    ELSE IF rcv.msg # NullMsg
    THEN CF_ProcessMsg(r, rcv.msg, env)
    ELSE r

\* what the body did, for the variable last
BodyKind(rcv) ==
    IF (rcv.status # CFE_SUCCESS /\ rcv.status # CFE_SB_TIME_OUT)
       \/ (rcv.status = CFE_SUCCESS /\ rcv.msg = NullMsg)
    THEN "RCV_ERROR"
    ELSE IF rcv.msg # NullMsg THEN rcv.msg ELSE "TIMEOUT"

(***************************************************************************)
(* The state.                                                              *)
(***************************************************************************)
VARIABLES
    pc,              \* where CF_AppMain is: start, looptop, receive, exit, done
    run_status,      \* CF_AppData.run_status
    config_table,    \* the record CF_AppData.config_table points to, or NoRec
    engine_enabled,  \* CF_AppData.engine.enabled
    cmd,             \* CF_AppData.hk.counters.cmd
    err,             \* CF_AppData.hk.counters.err
    tbl,             \* the table services: the active and the pending record
    tbl_file,        \* the record of the table file
    host_req,        \* the run status the host asks for
    init_status,     \* the status CF_Init returned (CFE_SUCCESS before it is called)
    exit_status,     \* the status given to CFE_ES_ExitApp
    calls,           \* the calls of the last step, in order
    last,            \* the last step: a handler, a message id, or the environment
    iter,            \* receives done
    nDispatch,       \* messages handed to CF_ProcessMsg
    nWakeUp,         \* wakeup messages handed to CF_ProcessMsg
    nCycle,          \* calls of CF_CFDP_CycleEngine
    nTimebase,       \* calls of cf_timer_update_timebase
    v_tbl,           \* validator run: the record validated
    v_res,           \* validator run: the result, or NoRec before the call
    v_done,          \* validator run: the validator has returned
    ti_env,          \* cold load run: the statuses the table calls return
    ti_file,         \* cold load run: the record of the table file
    ti_res,          \* cold load run: what CF_TableInit returned, or NoRec
    tm_sec,          \* timer run: rel_sec given to CF_Timer_InitRelSec
    tm_rate,         \* timer run: ticks_per_second of the configuration
    tm_tick,         \* timer run: cf_timer_t.tick as two 16-bit halves, or NoRec
    tm_exp,          \* timer run: what CF_Timer_Expired returns for the timer
    tm_n             \* timer run: calls of CF_Timer_Tick made

appvars == <<pc, run_status, config_table, engine_enabled, cmd, err, tbl, tbl_file,
             host_req, init_status, exit_status, calls, last, iter, nDispatch,
             nWakeUp, nCycle, nTimebase>>
\* the variables of the runs of the pure functions
valvars == <<v_tbl, v_res, v_done>>
tivars == <<ti_env, ti_file, ti_res>>
tmvars == <<tm_sec, tm_rate, tm_tick, tm_exp, tm_n>>
purevars == <<valvars, tivars, tmvars>>
vars == <<appvars, purevars>>

NoStatus == "none"

AppData ==
    [run_status |-> run_status, config_table |-> config_table,
     engine_enabled |-> engine_enabled, cmd |-> cmd, err |-> err, t |-> tbl,
     calls |-> <<>>, timebase |-> 0]

AppInit ==
    /\ pc = "start"
    /\ run_status = APP_UNDEFINED
    /\ config_table = NoRec
    /\ engine_enabled = FALSE
    /\ cmd = 0
    /\ err = 0
    /\ tbl = TblNone
    /\ tbl_file \in FileRecs
    /\ host_req = APP_RUN
    /\ init_status = CFE_SUCCESS
    /\ exit_status = NoStatus
    /\ calls = <<>>
    /\ last = "start"
    /\ iter = 0
    /\ nDispatch = 0
    /\ nWakeUp = 0
    /\ nCycle = 0
    /\ nTimebase = 0

ValIdle ==
    /\ v_tbl = NoRec
    /\ v_res = NoRec
    /\ v_done = FALSE

TblInitIdle ==
    /\ ti_env = NoRec
    /\ ti_file = NoRec
    /\ ti_res = NoRec

TimerIdle ==
    /\ tm_sec = 0
    /\ tm_rate = 0
    /\ tm_tick = NoRec
    /\ tm_exp = 0
    /\ tm_n = 0

Init == AppInit /\ ValIdle /\ TblInitIdle /\ TimerIdle

(***************************************************************************)
(* CF_AppMain up to the loop: CF_Init and the run status it leaves.        *)
(***************************************************************************)
AppMainInit ==
    /\ pc = "start"
    /\ \E env \in InitEnvs :
         LET r == CF_Init(env, tbl_file) IN
         /\ init_status' = r.status
         /\ run_status' = AppMainStatus(r.status)
         /\ config_table' = r.config_table
         /\ engine_enabled' = r.engine_enabled
         /\ tbl' = r.t
         /\ calls' = <<CallArg("CFE_ES_PerfLogEntry", "CF_PERF_ID_APPMAIN", CFE_SUCCESS)>>
                     \o r.calls
    /\ pc' = "looptop"
    /\ last' = "CF_Init"
    /\ UNCHANGED <<cmd, err, tbl_file, host_req, exit_status, iter, nDispatch,
                   nWakeUp, nCycle, nTimebase,
                   purevars>>

\* the test of the while loop
AppMainRunLoop ==
    /\ pc = "looptop"
    /\ LET r == CFE_ES_RunLoop(run_status, host_req) IN
         /\ run_status' = r.run_status
         /\ pc' = IF r.continue THEN "receive" ELSE "exit"
    /\ calls' = <<Call("CFE_ES_RunLoop", CFE_SUCCESS)>>
    /\ last' = "RunLoop"
    /\ UNCHANGED <<config_table, engine_enabled, cmd, err, tbl, tbl_file, host_req,
                   init_status, exit_status, iter, nDispatch, nWakeUp, nCycle, nTimebase,
                   purevars>>

\* one body of the loop: the receive and the dispatch of what was received
AppMainLoopBody ==
    /\ pc = "receive"
    /\ iter < MaxIter
    /\ \E rcv \in Receives, env \in MsgEnvs :
         LET r == AppMainBody(AppData, rcv, env) IN
         /\ run_status' = r.run_status
         /\ config_table' = r.config_table
         /\ engine_enabled' = r.engine_enabled
         /\ cmd' = r.cmd
         /\ err' = r.err
         /\ tbl' = r.t
         /\ calls' = r.calls
         /\ last' = BodyKind(rcv)
         /\ nDispatch' = nDispatch + NCalls(r.calls, "CFE_MSG_GetMsgId")
         /\ nWakeUp' = nWakeUp + (IF BodyKind(rcv) = "CF_WAKE_UP_MID" THEN 1 ELSE 0)
         /\ nCycle' = nCycle + NCalls(r.calls, "CF_CFDP_CycleEngine")
         /\ nTimebase' = nTimebase + r.timebase
    /\ iter' = iter + 1
    /\ pc' = "looptop"
    /\ UNCHANGED <<tbl_file, host_req, init_status, exit_status,
                   purevars>>

\* the exit that always reports a normal exit
AppMainExitNormal ==
    /\ pc = "exit"
    /\ exit_status' = APP_EXIT
    /\ calls' = <<CallArg("CFE_ES_PerfLogExit", "CF_PERF_ID_APPMAIN", CFE_SUCCESS),
                  CallArg("CFE_ES_ExitApp", APP_EXIT, CFE_SUCCESS)>>
    /\ pc' = "done"
    /\ last' = "ExitApp"
    /\ UNCHANGED <<run_status, config_table, engine_enabled, cmd, err, tbl, tbl_file,
                   host_req, init_status, iter, nDispatch, nWakeUp, nCycle, nTimebase,
                   purevars>>

\* after the loop
AppMainExit ==
    /\ pc = "exit"
    /\ exit_status' = run_status
    /\ calls' = <<CallArg("CFE_ES_PerfLogExit", "CF_PERF_ID_APPMAIN", CFE_SUCCESS),
                  CallArg("CFE_ES_ExitApp", run_status, CFE_SUCCESS)>>
    /\ pc' = "done"
    /\ last' = "ExitApp"
    /\ UNCHANGED <<run_status, config_table, engine_enabled, cmd, err, tbl, tbl_file,
                   host_req, init_status, iter, nDispatch, nWakeUp, nCycle, nTimebase,
                   purevars>>

(***************************************************************************)
(* The environment: the ground loads a table, which the table services     *)
(* validate and keep pending; the host asks the application to exit.       *)
(***************************************************************************)
TblLoadRequest ==
    /\ pc \in {"looptop", "receive"}
    /\ tbl.active # NoRec
    /\ tbl.pending = NoRec
    /\ \E rec \in LoadRecs :
         LET v == CF_ValidateConfigTable(rec) IN
         /\ tbl' = IF v.ret = CFE_SUCCESS THEN [tbl EXCEPT !.pending = rec] ELSE tbl
         /\ calls' = v.calls
    /\ last' = "env"
    /\ UNCHANGED <<pc, run_status, config_table, engine_enabled, cmd, err, tbl_file,
                   host_req, init_status, exit_status, iter, nDispatch, nWakeUp, nCycle, nTimebase,
                   purevars>>

HostExitRequest ==
    /\ pc \in {"looptop", "receive"}
    /\ host_req = APP_RUN
    /\ host_req' = APP_EXIT
    /\ calls' = <<>>
    /\ last' = "env"
    /\ UNCHANGED <<pc, run_status, config_table, engine_enabled, cmd, err, tbl, tbl_file,
                   init_status, exit_status, iter, nDispatch, nWakeUp, nCycle, nTimebase,
                   purevars>>

Next ==
    \/ AppMainInit
    \/ AppMainRunLoop
    \/ AppMainLoopBody
    \/ AppMainExit
    \/ TblLoadRequest
    \/ HostExitRequest


Spec == Init /\ [][Next]_vars

(***************************************************************************)
(* Runs of the validator alone: a record drawn from ValInputs is handed to *)
(* CF_ValidateConfigTable once.                                            *)
(***************************************************************************)
\* rx_crc_calc_bytes_per_wakeup: multiples of 1024 and values off them
RxInputs == {1024 * k + o : k \in 0..MaxK, o \in {0, 1, 1000, 1023}}
\* outgoing_file_chunk_size: around the capacity
OutInputs == {0, C - 1, C, C + 1}
ValInputs == {Rec(tps, rx, out) : tps \in 0..MaxTps, rx \in RxInputs, out \in OutInputs}

ValInit ==
    /\ AppInit
    /\ tbl_file = FileA
    /\ v_tbl \in ValInputs
    /\ v_res = NoRec
    /\ v_done = FALSE
    /\ TblInitIdle
    /\ TimerIdle

Validate ==
    /\ ~v_done
    /\ v_res' = CF_ValidateConfigTable(v_tbl)
    /\ v_done' = TRUE
    /\ UNCHANGED <<v_tbl, appvars, tivars, tmvars>>

ValNext == Validate

SpecValidator == ValInit /\ [][ValNext]_vars

(***************************************************************************)
(* Runs of CF_TableInit alone: the cold load of one table file under one   *)
(* choice of the statuses of the table calls.                              *)
(***************************************************************************)
TblInitEnvs == [reg : OkOrErr, load : OkOrErr, man : TblCodes, ga : OkOrErr]

TblInitInit ==
    /\ AppInit
    /\ tbl_file = FileA
    /\ ValIdle
    /\ TimerIdle
    /\ ti_env \in TblInitEnvs
    /\ ti_file \in FileRecs \cup LoadRecs
    /\ ti_res = NoRec

TableInitRun ==
    /\ ti_res = NoRec
    /\ ti_res' = CF_TableInit(TblNone, ti_env, ti_file)
    /\ UNCHANGED <<ti_env, ti_file, appvars, valvars, tmvars>>

TblInitNext == TableInitRun

SpecTableInit == TblInitInit /\ [][TblInitNext]_vars

(***************************************************************************)
(* The timer of cf_timer.h.  CF_Timer_Tick_t and cf_timer_sec_t are uint32 *)
(* (cf_timer.h:35-36).  A uint32 is kept as its two 16-bit halves          *)
(* [hi, lo], of value hi * 2^16 + lo, and the arithmetic is done half by   *)
(* half, modulo 2^32.                                                      *)
(***************************************************************************)
\* 2^16
Half == 65536

U32Zero == [hi |-> 0, lo |-> 0]

\* sec * rate in full, as three halves [top, hi, lo]; sec < 2^31, rate < 2^15
Product(sec, rate) ==
    LET pl == (sec % Half) * rate
        ph == (sec \div Half) * rate + pl \div Half IN
    [top |-> ph \div Half, hi |-> ph % Half, lo |-> pl % Half]

\* the conversion to uint32: the low 32 bits
ToU32(p) == [hi |-> p.hi, lo |-> p.lo]

\* the tick count of rel_sec seconds, stored in the uint32 tick
CF_Timer_InitRelSec(rel_sec, ticks_per_second) ==
    ToU32(Product(rel_sec, ticks_per_second))

\* returns 1 if expired
CF_Timer_Expired(t) == IF t = U32Zero THEN 1 ELSE 0

\* the decrement of the uint32 tick, without the test for 0
TickUnguarded(t) ==
    IF t.lo > 0 THEN [t EXCEPT !.lo = @ - 1]
    ELSE [hi |-> (t.hi + Half - 1) % Half, lo |-> Half - 1]

\* one tick: the decrement, floored at 0
CF_Timer_Tick(t) ==
    IF t = U32Zero THEN t
    ELSE IF t.lo > 0 THEN [t EXCEPT !.lo = @ - 1]
    ELSE [hi |-> t.hi - 1, lo |-> Half - 1]

\* the header expects 100 ticks per second and at most 400,000,000 seconds
HeaderRate == 100
HeaderMaxSec == 400000000

\* timer inputs: seconds 0..MaxSec and rates 1..MaxRate, besides the large ones
MaxSec == 3
MaxRate == 2
\* calls of CF_Timer_Tick in one run
MaxAdvance == 5

\* 65538 = 2^16 + 2 ticks borrow from the upper half; 42949672 is the last
\* number of seconds whose tick count at 100 ticks per second is below 2^32
SecInputs == (0..MaxSec) \cup {65538, 42949672, 42949673, HeaderMaxSec}
RateInputs == (1..MaxRate) \cup {HeaderRate}

TmInit ==
    /\ AppInit
    /\ tbl_file = FileA
    /\ ValIdle
    /\ TblInitIdle
    /\ tm_sec \in SecInputs
    /\ tm_rate \in RateInputs
    /\ tm_tick = NoRec
    /\ tm_exp = 0
    /\ tm_n = 0

TimerInitRelSec ==
    /\ tm_tick = NoRec
    /\ tm_tick' = CF_Timer_InitRelSec(tm_sec, tm_rate)
    /\ tm_exp' = CF_Timer_Expired(tm_tick')
    /\ UNCHANGED <<tm_sec, tm_rate, tm_n, appvars, valvars, tivars>>

TimerTick ==
    /\ tm_tick # NoRec
    /\ tm_n < MaxAdvance
    /\ tm_tick' = CF_Timer_Tick(tm_tick)
    /\ tm_exp' = CF_Timer_Expired(tm_tick')
    /\ tm_n' = tm_n + 1
    /\ UNCHANGED <<tm_sec, tm_rate, appvars, valvars, tivars>>

TmNext ==
    \/ TimerInitRelSec
    \/ TimerTick

SpecTimer == TmInit /\ [][TmNext]_vars

(***************************************************************************)
(* Properties.                                                             *)
(***************************************************************************)
\* this step is the loop body that dispatched a message of id m
Dispatched(m) == pc = "receive" /\ pc' = "looptop" /\ last' = m

TblFns == {"CFE_TBL_ReleaseAddress", "CFE_TBL_Manage", "CFE_TBL_GetAddress"}
\* the table calls among cs, by name and in order
TableCalls(cs) ==
    LET sel == SelectSeq(cs, LAMBDA c : c[1] \in TblFns) IN
    [i \in 1..Len(sel) |-> sel[i][1]]
\* the status the first call to f in cs returned
RcOf(cs, f) == CallsTo(cs, f)[1][3]
\* the events sent in cs
EventsOf(cs) ==
    LET sel == CallsTo(cs, "CFE_EVS_SendEvent") IN
    [i \in 1..Len(sel) |-> sel[i][2]]

\* C1: a housekeeping request dispatched while the engine is enabled makes no
\* call to release-address, manage or get-address and leaves the configuration
\* pointer and the run status as they were; the housekeeping packet is sent.
C1_HkGatedWhileEnabled ==
    [][(Dispatched("CF_SEND_HK_MID") /\ engine_enabled) =>
         /\ TableCalls(calls') = <<>>
         /\ config_table' = config_table
         /\ run_status' = run_status
         /\ tbl' = tbl
         /\ NCalls(calls', "CFE_SB_TransmitMsg") = 1]_vars

C1_Witness ==
    /\ last = "CF_SEND_HK_MID"
    /\ engine_enabled
    /\ tbl.pending = LoadB
    /\ config_table = FileA
    /\ NCalls(calls, "CFE_SB_TransmitMsg") = 1

CycleEnter(cs) == {i \in 1..Len(cs) : cs[i][1] = "CFE_ES_PerfLogEntry"
                                      /\ cs[i][2] = "CF_PERF_ID_CYCLE_ENG"}
CycleExit(cs) == {i \in 1..Len(cs) : cs[i][1] = "CFE_ES_PerfLogExit"
                                     /\ cs[i][2] = "CF_PERF_ID_CYCLE_ENG"}
InsideCycle(cs, i) == \E a \in CycleEnter(cs), b \in CycleExit(cs) : a < i /\ i < b

\* C3: after CF_Init the configuration pointer is released, reacquired or
\* changed only by a housekeeping request dispatched with the engine disabled,
\* never between the markers of an engine cycle; a pending update stays pending
\* and the pointer keeps its content through every step of the application
\* that is not a housekeeping request dispatched with the engine disabled.
C3_PointerDiscipline ==
    [][pc # "start" =>
         /\ (TableCalls(calls') # <<>> \/ config_table' # config_table)
               => (Dispatched("CF_SEND_HK_MID") /\ ~engine_enabled)
         /\ \A i \in 1..Len(calls') : calls'[i][1] \in TblFns => ~InsideCycle(calls', i)
         /\ (tbl.pending # NoRec /\ ~(Dispatched("CF_SEND_HK_MID") /\ ~engine_enabled))
               => (tbl'.pending = tbl.pending /\ tbl'.active = tbl.active
                   /\ config_table' = config_table)]_vars

C3_Witness ==
    /\ last = "CF_WAKE_UP_MID"
    /\ engine_enabled
    /\ nCycle = 2
    /\ cmd = 1
    /\ tbl.pending = LoadB
    /\ config_table = FileA

\* C4: in a warm check every sub-step is called whatever the earlier ones
\* returned; when one of them returns an error the run status is APP_ERROR when
\* the dispatch returns; when release and manage return success and get-address
\* returns success or updated the run status is not changed; with the run
\* status APP_ERROR no message is received or dispatched any more and the next
\* test of the loop leaves the loop.
C4_WarmCheckFailure ==
    [][/\ (Dispatched("CF_SEND_HK_MID") /\ ~engine_enabled) =>
            /\ TableCalls(calls') =
                 <<"CFE_TBL_ReleaseAddress", "CFE_TBL_Manage", "CFE_TBL_GetAddress">>
            /\ NCalls(calls', "CFE_SB_TransmitMsg") = 1
            /\ (\E f \in TblFns : RcOf(calls', f) < 0) => run_status' = APP_ERROR
            /\ (/\ RcOf(calls', "CFE_TBL_ReleaseAddress") = CFE_SUCCESS
                /\ RcOf(calls', "CFE_TBL_Manage") = CFE_SUCCESS
                /\ RcOf(calls', "CFE_TBL_GetAddress") \in {CFE_SUCCESS, CFE_TBL_INFO_UPDATED})
                  => run_status' = run_status
       /\ run_status = APP_ERROR =>
            /\ nDispatch' = nDispatch
            /\ iter' = iter
            /\ pc' # "receive"
            /\ (pc = "looptop" /\ last' = "RunLoop") => pc' = "exit"]_vars

C4_Witness ==
    /\ last = "CF_SEND_HK_MID"
    /\ run_status = APP_ERROR
    /\ RcOf(calls, "CFE_TBL_ReleaseAddress") < 0
    /\ RcOf(calls, "CFE_TBL_Manage") = CFE_SUCCESS
    /\ RcOf(calls, "CFE_TBL_GetAddress") = CFE_SUCCESS

\* the application has been told to stop
Stopping == run_status \in {APP_ERROR, APP_EXIT} \/ host_req # APP_RUN

\* C5: with the run status APP_ERROR or APP_EXIT nothing is received or
\* dispatched any more; once the run status is one of them or the host has asked
\* for the exit, the next test of the loop leaves the loop, and nothing is
\* received or dispatched after the loop; when CF_Init fails no message is
\* ever received or dispatched.
C5_Shutdown ==
    /\ [][/\ run_status \in {APP_ERROR, APP_EXIT} =>
               (nDispatch' = nDispatch /\ iter' = iter /\ pc' # "receive")
          /\ (Stopping /\ pc = "looptop" /\ last' = "RunLoop") => pc' = "exit"
          /\ pc \in {"exit", "done"} =>
               (nDispatch' = nDispatch /\ iter' = iter /\ pc' \in {"exit", "done"})]_vars
    /\ [](init_status # CFE_SUCCESS =>
            (iter = 0 /\ nDispatch = 0 /\ pc # "receive"))

C5_Witness ==
    /\ pc = "done"
    /\ init_status = CFE_STATUS_ERR
    /\ exit_status = APP_ERROR
    /\ iter = 0

\* the steps of CF_Init in the order of the code
InitOrder ==
    << <<"CFE_EVS_Register", "">>, <<"CFE_SB_CreatePipe", "">>,
       <<"CFE_SB_Subscribe", "CF_CMD_MID">>, <<"CFE_SB_Subscribe", "CF_SEND_HK_MID">>,
       <<"CFE_SB_Subscribe", "CF_WAKE_UP_MID">>,
       <<"CFE_TBL_Register", "">>, <<"CFE_TBL_Load", "">>, <<"CFE_TBL_Manage", "">>,
       <<"CFE_TBL_GetAddress", "">>,
       <<"CF_CFDP_InitEngine", "">>, <<"CFE_EVS_SendEvent", "CF_EID_INF_INIT">> >>
InitStepSet == {InitOrder[i] : i \in 1..Len(InitOrder)}
\* the calls among cs that are steps of CF_Init
InitSteps(cs) == SelectSeq(cs, LAMBDA c : <<c[1], c[2]>> \in InitStepSet)
\* the status of call c is a failure for CF_Init
StepFailed(c) ==
    IF c[1] = "CFE_TBL_GetAddress"
    THEN c[3] \notin {CFE_SUCCESS, CFE_TBL_INFO_UPDATED}
    ELSE c[3] # CFE_SUCCESS

\* C6: CF_Init makes its calls in the fixed order (filter registration, pipe,
\* the three subscriptions, the cold load, the engine init, the startup event)
\* and stops early only at a failed call; a failure of the pipe creation, of a
\* subscription, of the cold load, of the engine init or of the startup event
\* is the last call made, CF_Init returns a failure and the run status is
\* APP_ERROR; the engine init is not called when the cold load fails (a table
\* with ticks_per_second = 0), and the startup event is sent only after every
\* earlier call succeeded.
C6_InitFailFast ==
    last = "CF_Init" =>
      LET st == InitSteps(calls)
          n == Len(st) IN
      /\ n >= 1 /\ n <= Len(InitOrder)
      /\ \A i \in 1..n : <<st[i][1], st[i][2]>> = InitOrder[i]
      /\ n < Len(InitOrder) => StepFailed(st[n])
      /\ \A i \in 2..n : StepFailed(st[i]) =>
            (i = n /\ init_status # CFE_SUCCESS /\ run_status = APP_ERROR)
      /\ n = Len(InitOrder) => \A i \in 1..(n - 1) : ~StepFailed(st[i])
      /\ (\A i \in 1..n : ~StepFailed(st[i])) =>
            (n = Len(InitOrder) /\ init_status = CFE_SUCCESS /\ run_status = APP_RUN)
      /\ (\E i \in 6..9 : i <= n /\ StepFailed(st[i])) =>
            NCalls(calls, "CF_CFDP_InitEngine") = 0
      /\ tbl_file.ticks_per_second = 0 =>
            /\ NCalls(calls, "CF_CFDP_InitEngine") = 0
            /\ ~engine_enabled
            /\ init_status # CFE_SUCCESS
            /\ run_status = APP_ERROR

C6_Witness ==
    /\ last = "CF_Init"
    /\ tbl_file = FileNoTicks
    /\ NCalls(calls, "CFE_TBL_Load") = 1
    /\ EventsOf(calls) = <<"CF_EID_ERR_INIT_TPS", "CF_EID_ERR_INIT_TBL_LOAD">>
    /\ NCalls(calls, "CF_CFDP_InitEngine") = 0
    /\ run_status = APP_ERROR

\* CFE_EVS_Register returned a failure in the CF_Init just done
EvsRegisterFailed ==
    /\ last = "CF_Init"
    /\ NCalls(calls, "CFE_EVS_Register") = 1
    /\ RcOf(calls, "CFE_EVS_Register") # CFE_SUCCESS

\* C7 as stated: a failure of the registration of the event filters is logged
\* and does not abort: the later steps are still made and the run status is
\* not APP_ERROR when they succeed.
C7_Original ==
    EvsRegisterFailed =>
      /\ NCalls(calls, "CFE_ES_WriteToSysLog") >= 1
      /\ NCalls(calls, "CFE_SB_CreatePipe") = 1
      /\ (\A i \in 2..Len(InitSteps(calls)) : ~StepFailed(InitSteps(calls)[i]))
            => run_status # APP_ERROR

\* C7 amended: a failure of the registration of the event filters is written
\* to the system log and aborts CF_Init as every other failure does: no later
\* step is made, CF_Init returns the failure and the run status is APP_ERROR.
C7_EvsRegisterFailureAborts ==
    EvsRegisterFailed =>
      /\ calls = <<CallArg("CFE_ES_PerfLogEntry", "CF_PERF_ID_APPMAIN", CFE_SUCCESS),
                   CallArg("CFE_EVS_Register", "", init_status),
                   CallArg("CFE_ES_WriteToSysLog", "CFE_EVS_Register", init_status)>>
      /\ init_status # CFE_SUCCESS
      /\ run_status = APP_ERROR
      /\ ~engine_enabled
      /\ config_table = NoRec

C7_Witness ==
    /\ EvsRegisterFailed
    /\ pc = "looptop"
    /\ init_status = CFE_STATUS_ERR

\* C8: the dispatch of a wakeup message makes exactly the calls enter marker of
\* the cycle, CF_CFDP_CycleEngine, exit marker of the cycle, once each and in
\* that order; no other step calls CF_CFDP_CycleEngine; the number of engine
\* cycles equals the number of wakeup messages dispatched.
C8_WakeUpCycles ==
    /\ [][/\ Dispatched("CF_WAKE_UP_MID") =>
               /\ SubSeq(calls', 5, Len(calls')) =
                    <<CallArg("CFE_ES_PerfLogEntry", "CF_PERF_ID_CYCLE_ENG", CFE_SUCCESS),
                      Call("CF_CFDP_CycleEngine", CFE_SUCCESS),
                      CallArg("CFE_ES_PerfLogExit", "CF_PERF_ID_CYCLE_ENG", CFE_SUCCESS)>>
               /\ nCycle' = nCycle + 1
               /\ nWakeUp' = nWakeUp + 1
          /\ ~Dispatched("CF_WAKE_UP_MID") =>
               /\ NCalls(calls', "CF_CFDP_CycleEngine") = 0
               /\ CycleEnter(calls') = {} /\ CycleExit(calls') = {}
               /\ nCycle' = nCycle]_vars
    /\ [](nCycle = nWakeUp)

C8_Witness ==
    /\ last = "CF_WAKE_UP_MID"
    /\ nWakeUp = 2
    /\ nCycle = 2
    /\ nDispatch = 3

\* C9: the dispatch of a message of an unknown id adds exactly one to the error
\* counter, sends the one event CF_EID_ERR_INIT_CMD_LENGTH and changes nothing
\* else: run status, command counter, configuration pointer, engine and table
\* stay, and no engine cycle, ground command, housekeeping packet or table call
\* is made.
C9_UnknownMsgId ==
    [][Dispatched("OTHER_MID") =>
         /\ err' = err + 1
         /\ EventsOf(calls') = <<"CF_EID_ERR_INIT_CMD_LENGTH">>
         /\ SubSeq(calls', 4, Len(calls')) =
              <<CallArg("CFE_MSG_GetMsgId", "OTHER_MID", CFE_SUCCESS),
                Event("CF_EID_ERR_INIT_CMD_LENGTH")>>
         /\ run_status' = run_status /\ run_status' # APP_ERROR
         /\ cmd' = cmd
         /\ config_table' = config_table
         /\ engine_enabled' = engine_enabled
         /\ tbl' = tbl
         /\ nCycle' = nCycle]_vars

C9_Witness ==
    /\ last = "OTHER_MID"
    /\ err = 2
    /\ cmd = 1
    /\ run_status = APP_RUN

\* C10: the validator returns CFE_SUCCESS exactly for the records with
\* ticks_per_second # 0, rx_crc_calc_bytes_per_wakeup # 0 and a multiple of
\* 1024, and outgoing_file_chunk_size <= C.
C10_ValidatorAccepts ==
    v_done =>
      (v_res.ret = CFE_SUCCESS <=>
         /\ v_tbl.ticks_per_second # 0
         /\ v_tbl.rx_crc_calc_bytes_per_wakeup # 0
         /\ v_tbl.rx_crc_calc_bytes_per_wakeup % 1024 = 0
         /\ v_tbl.outgoing_file_chunk_size <= C)

C10_Witness ==
    /\ v_done
    /\ v_tbl = Rec(1, 1024, C)
    /\ v_res.ret = CFE_SUCCESS

\* the calls every body of the loop makes around the receive that returned st
BodyCalls(st) ==
    <<CallArg("CFE_ES_PerfLogExit", "CF_PERF_ID_APPMAIN", CFE_SUCCESS),
      Call("CFE_SB_ReceiveBuffer", st),
      CallArg("CFE_ES_PerfLogEntry", "CF_PERF_ID_APPMAIN", CFE_SUCCESS)>>

\* C11: a body of the loop whose receive returned CFE_SB_TIME_OUT makes the
\* receive call and nothing else: no message is dispatched, no event is sent,
\* run status, counters, configuration pointer, engine and table stay, and the
\* control is back at the test of the loop, which goes on to the next receive
\* when nothing else asks for the stop.
C11_TimeoutNoError ==
    [][/\ Dispatched("TIMEOUT") =>
            /\ calls' = BodyCalls(CFE_SB_TIME_OUT)
            /\ EventsOf(calls') = <<>>
            /\ NCalls(calls', "CFE_MSG_GetMsgId") = 0
            /\ nDispatch' = nDispatch /\ nWakeUp' = nWakeUp /\ nCycle' = nCycle
            /\ run_status' = run_status /\ run_status' = APP_RUN
            /\ cmd' = cmd /\ err' = err
            /\ config_table' = config_table
            /\ engine_enabled' = engine_enabled
            /\ tbl' = tbl
            /\ pc' = "looptop"
       /\ (last = "TIMEOUT" /\ pc = "looptop" /\ host_req = APP_RUN
           /\ last' = "RunLoop") => pc' = "receive"]_vars

C11_Witness ==
    /\ last = "TIMEOUT"
    /\ pc = "looptop"
    /\ iter = 2
    /\ nDispatch = 1
    /\ run_status = APP_RUN
    /\ calls = BodyCalls(CFE_SB_TIME_OUT)

\* C12: a body of the loop whose receive returned a status other than
\* CFE_SUCCESS and CFE_SB_TIME_OUT, or CFE_SUCCESS with no buffer, sets the run
\* status to APP_ERROR, sends the event CF_EID_ERR_INIT_MSG_RECV and nothing
\* else, and dispatches no message; the next test of the loop leaves the loop.
C12_ReceiveErrorFatal ==
    [][/\ Dispatched("RCV_ERROR") =>
            /\ run_status' = APP_ERROR
            /\ \E st \in {CFE_SUCCESS, CFE_STATUS_ERR} :
                 calls' = BodyCalls(st) \o <<Event("CF_EID_ERR_INIT_MSG_RECV")>>
            /\ NCalls(calls', "CFE_MSG_GetMsgId") = 0
            /\ nDispatch' = nDispatch /\ nWakeUp' = nWakeUp /\ nCycle' = nCycle
            /\ cmd' = cmd /\ err' = err
            /\ config_table' = config_table
            /\ engine_enabled' = engine_enabled
            /\ tbl' = tbl
       /\ (last = "RCV_ERROR" /\ pc = "looptop") =>
            (pc' # "receive" /\ (last' = "RunLoop" => pc' = "exit"))]_vars

C12_Witness ==
    /\ last = "RCV_ERROR"
    /\ pc = "looptop"
    /\ run_status = APP_ERROR
    /\ calls = BodyCalls(CFE_SUCCESS) \o <<Event("CF_EID_ERR_INIT_MSG_RECV")>>
    /\ iter = 2
    /\ nDispatch = 1

\* C13: CFE_ES_ExitApp is called in one step only, the one after the loop has
\* ended, once, as the last call, with the run status the loop ended with;
\* nothing runs after it.  The loop ends with the run status APP_ERROR or
\* APP_EXIT, and a run status APP_ERROR (set after a failed CF_Init, a receive
\* error or a failed table check) stays until the exit.  While the loop runs
\* no exit call has been made, and once the loop has ended the exit call is the
\* step that can be taken.
C13_SingleExit ==
    /\ [][/\ NCalls(calls', "CFE_ES_ExitApp") > 0 =>
               /\ pc = "exit" /\ pc' = "done"
               /\ CallsTo(calls', "CFE_ES_ExitApp") =
                    <<CallArg("CFE_ES_ExitApp", run_status, CFE_SUCCESS)>>
               /\ calls'[Len(calls')][1] = "CFE_ES_ExitApp"
               /\ exit_status' = run_status
               /\ run_status' = run_status
          /\ pc = "exit" => (pc' = "done" /\ NCalls(calls', "CFE_ES_ExitApp") = 1)
          /\ pc # "done"
          /\ exit_status' # exit_status => pc = "exit"
          /\ (pc = "looptop" /\ pc' = "exit") => run_status' \in {APP_ERROR, APP_EXIT}
          /\ run_status = APP_ERROR => run_status' = APP_ERROR]_vars
    /\ [](pc # "done" => exit_status = NoStatus)
    /\ [](pc = "exit" => ENABLED AppMainExit)
    /\ [](pc = "done" => (exit_status = run_status
                          /\ exit_status \in {APP_ERROR, APP_EXIT}
                          /\ (init_status # CFE_SUCCESS => exit_status = APP_ERROR)))

C13_Witness ==
    /\ pc = "done"
    /\ last = "ExitApp"
    /\ init_status = CFE_SUCCESS
    /\ iter = 2
    /\ nDispatch = 2
    /\ exit_status = APP_ERROR
    /\ calls[Len(calls)] = CallArg("CFE_ES_ExitApp", APP_ERROR, CFE_SUCCESS)

\* the positions in cs of the calls to the functions of set fs
PosOf(cs, fs) == {i \in 1..Len(cs) : cs[i][1] \in fs}
\* the routes of CF_ProcessMsg that the calls cs show
Routes(cs) ==
    {r \in {"command", "cycle", "housekeeping", "check", "unrecognized"} :
       \/ r = "command" /\ PosOf(cs, {"CF_ProcessGroundCommand"}) # {}
       \/ r = "cycle" /\ PosOf(cs, {"CF_CFDP_CycleEngine"}) # {}
       \/ r = "housekeeping" /\ PosOf(cs, {"CFE_SB_TransmitMsg"}) # {}
       \/ r = "check" /\ PosOf(cs, TblFns) # {}
       \/ r = "unrecognized"
            /\ \E i \in 1..Len(cs) : cs[i] = Event("CF_EID_ERR_INIT_CMD_LENGTH")}

\* C14: a body of the loop makes one receive and hands at most one message to
\* CF_ProcessMsg, once; the message takes the route of its id and no other: a
\* command goes to CF_ProcessGroundCommand once, a wakeup to the engine cycle
\* once, a housekeeping request to the transmit of the packet once and then to
\* the table check (every table call after the transmit), any other id to the
\* default case.  A body that received no message takes no route.
C14_RouteByMsgId ==
    [][(pc = "receive" /\ pc' = "looptop") =>
         /\ iter' = iter + 1
         /\ NCalls(calls', "CFE_SB_ReceiveBuffer") = 1
         /\ NCalls(calls', "CFE_MSG_GetMsgId") <= 1
         /\ nDispatch' = nDispatch + NCalls(calls', "CFE_MSG_GetMsgId")
         /\ \A m \in MsgIds : last' = m =>
              /\ CallsTo(calls', "CFE_MSG_GetMsgId") =
                   <<CallArg("CFE_MSG_GetMsgId", m, CFE_SUCCESS)>>
              /\ calls'[4][1] = "CFE_MSG_GetMsgId"
         /\ last' = "CF_CMD_MID" =>
              /\ Routes(calls') = {"command"}
              /\ NCalls(calls', "CF_ProcessGroundCommand") = 1
         /\ last' = "CF_WAKE_UP_MID" =>
              /\ Routes(calls') = {"cycle"}
              /\ NCalls(calls', "CF_CFDP_CycleEngine") = 1
         /\ last' = "CF_SEND_HK_MID" =>
              /\ Routes(calls') =
                   IF engine_enabled THEN {"housekeeping"} ELSE {"housekeeping", "check"}
              /\ NCalls(calls', "CFE_SB_TransmitMsg") = 1
              /\ \A i \in PosOf(calls', {"CFE_SB_TransmitMsg"}),
                    j \in PosOf(calls', TblFns) : i < j
         /\ last' = "OTHER_MID" => Routes(calls') = {"unrecognized"}
         /\ last' \notin MsgIds =>
              (Routes(calls') = {} /\ NCalls(calls', "CFE_MSG_GetMsgId") = 0)]_vars

C14_Witness ==
    /\ last = "CF_SEND_HK_MID"
    /\ Routes(calls) = {"housekeeping", "check"}
    /\ PosOf(calls, {"CFE_SB_TransmitMsg"}) = {6}
    /\ PosOf(calls, TblFns) = {7, 8, 9}
    /\ nDispatch = 3
    /\ nWakeUp = 1
    /\ cmd = 1

U32Inc(t) ==
    IF t.lo = Half - 1 THEN [hi |-> t.hi + 1, lo |-> 0] ELSE [t EXCEPT !.lo = @ + 1]

\* C16: a call of CF_Timer_Tick takes exactly one from a tick above 0 and
\* leaves a tick of 0 at 0, so the tick never leaves 0..2^32-1 by the bottom
\* and never wraps around to 2^32-1; CF_Timer_Expired returns 1 exactly for a
\* tick of 0, and once it has returned 1 it returns 1 after every further tick.
C16_TickFloor ==
    /\ [][(tm_tick # NoRec /\ tm_n' = tm_n + 1) =>
            /\ tm_tick # U32Zero => U32Inc(tm_tick') = tm_tick
            /\ tm_tick = U32Zero => tm_tick' = U32Zero
            /\ tm_exp = 1 => tm_exp' = 1]_vars
    /\ [](tm_tick # NoRec =>
            /\ tm_tick.hi \in 0..(Half - 1)
            /\ tm_tick.lo \in 0..(Half - 1)
            /\ tm_exp \in {0, 1}
            /\ tm_exp = 1 <=> tm_tick = U32Zero)

C16_Witness ==
    /\ tm_sec = 1
    /\ tm_rate = 2
    /\ tm_n = 4
    /\ tm_tick = U32Zero
    /\ tm_exp = 1

\* C17 as stated: CF_Timer_InitRelSec leaves in the tick exactly seconds times
\* rate, the timer is expired at once exactly when that product is 0, and for
\* 100 ticks per second and up to 400,000,000 seconds the product is in the
\* 32-bit tick without wrapping.
C17_Original ==
    (tm_tick # NoRec /\ tm_n = 0) =>
      LET p == Product(tm_sec, tm_rate) IN
      /\ (tm_exp = 1) <=> (p = [top |-> 0, hi |-> 0, lo |-> 0])
      /\ (tm_rate = HeaderRate /\ tm_sec <= HeaderMaxSec) =>
           (p.top = 0 /\ tm_tick = ToU32(p))

\* the cold load calls, in the order of the code, and the event of each
ColdOrder ==
    <<"CFE_TBL_Register", "CFE_TBL_Load", "CFE_TBL_Manage", "CFE_TBL_GetAddress">>
ColdEvent ==
    <<"CF_EID_ERR_INIT_TBL_REG", "CF_EID_ERR_INIT_TBL_LOAD",
      "CF_EID_ERR_INIT_TBL_MANAGE", "CF_EID_ERR_INIT_TBL_GETADDR">>
ColdCalls(cs) == SelectSeq(cs, LAMBDA c : \E i \in 1..4 : c[1] = ColdOrder[i])
\* the call c of the cold load did not fail
ColdOk(c) ==
    \/ c[3] = CFE_SUCCESS
    \/ c[1] = "CFE_TBL_GetAddress" /\ c[3] = CFE_TBL_INFO_UPDATED

\* C19: the cold load calls register, load, manage, get-address in that order
\* and stops at the first call that fails: no table call follows it, and the
\* one event CF_TableInit sends is the event of that call, sent right after it.
\* It returns CFE_SUCCESS exactly when register, load and manage returned
\* CFE_SUCCESS and get-address returned CFE_SUCCESS or CFE_TBL_INFO_UPDATED, in
\* which case it sends no event; after CFE_TBL_INFO_UPDATED the status returned
\* is CFE_SUCCESS.
C19_ColdLoad ==
    ti_res # NoRec =>
      LET cs == ti_res.calls
          cc == ColdCalls(cs)
          n == Len(cc)
          own == SelectSeq(EventsOf(cs), LAMBDA e : \E i \in 1..4 : e = ColdEvent[i]) IN
      /\ n \in 1..4
      /\ \A i \in 1..n : cc[i][1] = ColdOrder[i]
      /\ \A i \in 1..(n - 1) : ColdOk(cc[i])
      /\ ~ColdOk(cc[n]) =>
           /\ ti_res.status # CFE_SUCCESS
           /\ SubSeq(cs, Len(cs) - 1, Len(cs)) = <<cc[n], Event(ColdEvent[n])>>
           /\ own = <<ColdEvent[n]>>
      /\ ColdOk(cc[n]) =>
           /\ n = 4
           /\ own = <<>>
           /\ EventsOf(cs) = <<>>
           /\ cs[Len(cs)] = cc[4]
      /\ ti_res.status = CFE_SUCCESS <=> (n = 4 /\ \A i \in 1..4 : ColdOk(cc[i]))
      /\ ti_res.status # CFE_TBL_INFO_UPDATED \/ ~ColdOk(cc[n])

C19_Witness ==
    /\ ti_res # NoRec
    /\ ti_file = FileA
    /\ ti_res.status = CFE_SUCCESS
    /\ ColdCalls(ti_res.calls)[4] = Call("CFE_TBL_GetAddress", CFE_TBL_INFO_UPDATED)
    /\ ti_res.config_table = FileA

\* the checks of the validator in the order of the code: the event and the
\* status of each
ValEvent ==
    <<"CF_EID_ERR_INIT_TPS", "CF_EID_ERR_INIT_CRC_ALIGN", "CF_EID_ERR_INIT_OUTGOING_SIZE">>
ValStatus == <<no_ticks_per_second, crc_alignment, outgoing_chunk_size>>
\* the first check the record fails, 0 when it fails none
FirstFailing(rec) ==
    IF rec.ticks_per_second = 0 THEN 1
    ELSE IF rec.rx_crc_calc_bytes_per_wakeup = 0
            \/ rec.rx_crc_calc_bytes_per_wakeup % 1024 # 0 THEN 2
    ELSE IF rec.outgoing_file_chunk_size > C THEN 3
    ELSE 0

\* C20: the validator sends exactly one event for a rejected record, the event
\* of the first check the record fails in the order ticks_per_second,
\* rx_crc_calc_bytes_per_wakeup, outgoing_file_chunk_size, and returns the
\* status of that check; the three events differ, the three statuses differ
\* and none is CFE_SUCCESS; for an accepted record it sends no event and
\* returns CFE_SUCCESS.
C20_FirstFailingCheck ==
    /\ \A i, j \in 1..3 :
         /\ ValStatus[i] # CFE_SUCCESS
         /\ i # j => (ValStatus[i] # ValStatus[j] /\ ValEvent[i] # ValEvent[j])
    /\ v_done =>
         LET k == FirstFailing(v_tbl) IN
         /\ k = 0 => v_res = [ret |-> CFE_SUCCESS, calls |-> <<>>]
         /\ k # 0 => v_res = [ret |-> ValStatus[k], calls |-> <<Event(ValEvent[k])>>]

C20_Witness ==
    /\ v_done
    /\ v_tbl = Rec(0, 1000, C + 1)
    /\ v_res.ret = no_ticks_per_second
    /\ v_res.calls = <<Event("CF_EID_ERR_INIT_TPS")>>

\* the call c is one of the failures C18 lists: the queue creation, a
\* subscription, a table call of the cold load or of the table check, the
\* startup event or the receive returned a failure
ListedFailure(c) ==
    \/ /\ c[1] \in {"CFE_SB_CreatePipe", "CFE_SB_Subscribe", "CFE_TBL_Register",
                    "CFE_TBL_Load", "CFE_TBL_Manage", "CFE_TBL_ReleaseAddress"}
       /\ c[3] # CFE_SUCCESS
    \/ c[1] = "CFE_TBL_GetAddress" /\ c[3] \notin {CFE_SUCCESS, CFE_TBL_INFO_UPDATED}
    \/ c[1] = "CFE_SB_ReceiveBuffer" /\ c[3] \notin {CFE_SUCCESS, CFE_SB_TIME_OUT}
    \/ c[1] = "CFE_EVS_SendEvent" /\ c[2] = "CF_EID_INF_INIT" /\ c[3] # CFE_SUCCESS
\* the first error event sent after position i of cs, or "none"
EventOf(cs, i) ==
    LET after == {k \in (i + 1)..Len(cs) : /\ cs[k][1] = "CFE_EVS_SendEvent"
                                           /\ cs[k][3] = CFE_SUCCESS
                                           /\ cs[k][2] # "CF_EID_INF_INIT"} IN
    IF after = {} THEN "none"
    ELSE cs[CHOOSE k \in after : \A l \in after : k <= l][2]

\* C18 as stated: every failure of the list is followed by an error event, a
\* receive that fails and a message of an unknown id send an event, and
\* failures of different calls send different events.  (The engine init and
\* the validator send their events themselves.)
C18_Original ==
    /\ \A i \in 1..Len(calls) :
         ListedFailure(calls[i]) => EventOf(calls, i) # "none"
    /\ last \in {"RCV_ERROR", "OTHER_MID"} => EventsOf(calls) # <<>>
    /\ \A i, j \in 1..Len(calls) :
         (/\ ListedFailure(calls[i]) /\ ListedFailure(calls[j])
          /\ calls[i][1] # calls[j][1])
           => EventOf(calls, i) # EventOf(calls, j)

\* the application holds the address of the table and the configuration
\* pointer refers to the active record, which the validator accepts
HoldsValidConfig ==
    /\ tbl.held
    /\ config_table # NoRec
    /\ config_table = tbl.active
    /\ CF_ValidateConfigTable(config_table).ret = CFE_SUCCESS

\* C21: the dispatch of a wakeup message, which calls the engine cycle, starts
\* and ends with the address of the table held and the configuration pointer
\* on a record the validator accepts; whenever a message can be received the
\* same holds.  A table check whose release went through and whose get-address
\* failed leaves the run status APP_ERROR, and from a state without the address
\* or without the pointer no engine cycle is ever made.  In a table check
\* manage and get-address are called, in that order and after the release,
\* also when the release or the manage failed.
C21_CycleHoldsConfig ==
    /\ [][/\ Dispatched("CF_WAKE_UP_MID") =>
               /\ HoldsValidConfig
               /\ config_table' = config_table
               /\ tbl' = tbl
          /\ (/\ Dispatched("CF_SEND_HK_MID") /\ ~engine_enabled
              /\ RcOf(calls', "CFE_TBL_ReleaseAddress") >= 0
              /\ RcOf(calls', "CFE_TBL_GetAddress") < 0)
               => (run_status' = APP_ERROR /\ ~tbl'.held /\ config_table' = NoRec)
          /\ (~tbl.held \/ config_table = NoRec) =>
               (nCycle' = nCycle /\ NCalls(calls', "CF_CFDP_CycleEngine") = 0)
          /\ (/\ Dispatched("CF_SEND_HK_MID") /\ ~engine_enabled
              /\ \/ RcOf(calls', "CFE_TBL_ReleaseAddress") # CFE_SUCCESS
                 \/ RcOf(calls', "CFE_TBL_Manage") # CFE_SUCCESS)
               => /\ NCalls(calls', "CFE_TBL_Manage") = 1
                  /\ NCalls(calls', "CFE_TBL_GetAddress") = 1
                  /\ \A i \in PosOf(calls', {"CFE_TBL_ReleaseAddress"}),
                        j \in PosOf(calls', {"CFE_TBL_Manage"}),
                        k \in PosOf(calls', {"CFE_TBL_GetAddress"}) : i < j /\ j < k]_vars
    /\ [](pc = "receive" => (run_status = APP_RUN /\ HoldsValidConfig))

C21_Witness ==
    /\ last = "CF_WAKE_UP_MID"
    /\ ~engine_enabled
    /\ nCycle = 1
    /\ config_table = LoadB
    /\ HoldsValidConfig
    /\ run_status = APP_RUN

====
